---- MODULE Spec2Model ----
(***************************************************************************)
(* A model of the foodee-api recipe and collection logic:                  *)
(*   src/src/models/recipe.model.ts          (schema, views, rating rollup,*)
(*                                             category and listing queries)*)
(*   src/src/controllers/collection.controller.ts (collection endpoints)   *)
(* The data store is a set of document collections; every request works on *)
(* documents it loaded itself and writes them back with save().            *)
(***************************************************************************)
EXTENDS Integers, Sequences, FiniteSets, TLC

(***************************************************************************)
(* Bounds of the model.                                                    *)
(***************************************************************************)
MaxRatings == 3        \* rating records ever created
MaxCollections == 2    \* collections ever created
MaxBannersTried == 5   \* banner references in the input of a create
MaxGrouped == 2        \* recipes stored when the categories are listed
MaxLimit == 1          \* largest limit passed to getCategories
MaxSorted == 3         \* recipes stored when the high-rated list is read
MaxTotal == 2          \* ratings behind a stored rating summary

RecipeIds == {"r1", "r2"}
RateValues == {3, 5}
Procs == {"p1", "p2"}  \* requests in flight at the same time
MissingRecipe == "r0"  \* an id no recipe has
RatingIds == {"g1", "g2"}
ImageIds == 1..MaxBannersTried  \* images that may be uploaded
UserOf == [p \in Procs |-> IF p = "p1" THEN "u1" ELSE "u2"]  \* who each request is authenticated as
UserIds == {UserOf[p] : p \in Procs}

VARIABLES
    ratingRecords,  \* the rating collection: a sequence of [recipeId, rateValue]
    recipeRating,   \* the stored rating summary of each recipe
    upd,            \* per request: the updateRating call it is running
    lastSaver       \* per recipe: the request whose save landed last ("none" at first)

VARIABLES
    collections,    \* the stored collections: id -> [createdBy, recipes]
    users,          \* the stored users: id -> [collections]
    creq,           \* per request: the createCollection call it is running
    mreq,           \* the addRecipe / removeRecipe request being served
    ratingRefs,     \* the stored `ratings` reference list of each recipe
    opLog           \* the last completed operation on a collection and on a recipe's
                    \* ratings, and which operations were seen applied twice in a row

VARIABLES
    images,         \* the ids of the stored images
    recipes,        \* the stored recipes, in natural order
    createIn,       \* the fields handed to Recipe.create
    createOut,      \* how that create ended
    viewOut,        \* the last view computed of a recipe
    queryOut        \* the result of the last listing query

ratingVars == <<ratingRecords, recipeRating, upd, lastSaver>>
collectionVars == <<collections, users, creq>>
memberVars == <<mreq, ratingRefs, opLog>>
recipeVars == <<images, recipes, createIn, createOut, viewOut, queryOut>>

vars == <<ratingRecords, recipeRating, upd, lastSaver,
          collections, users, creq, mreq, ratingRefs, opLog,
          images, recipes, createIn, createOut, viewOut, queryOut>>

(***************************************************************************)
(* Limits the recipe schema declares.                                      *)
(***************************************************************************)
MinServings == 1
MaxServings == 16
MinTime == 1
MaxTime == 200
MinBanners == 1
MaxBanners == 4

\* What the requests of one kind leave alone.
notRating == <<collectionVars, memberVars, recipeVars>>
notCreateCollection == <<ratingVars, memberVars, recipeVars>>
notMember == <<ratingVars, users, creq, recipeVars>>
notRecipe == <<ratingVars, collectionVars, memberVars>>

----------------------------------------------------------------------------
(***************************************************************************)
(* The store before any request.                                           *)
(***************************************************************************)
IdleCreate == [pc |-> "idle", user |-> <<>>, coll |-> 0, sent |-> 0, forwarded |-> 0]

IdleMember == [pc |-> "idle", op |-> "none", collId |-> 0, collection |-> <<>>,
               recipe |-> "none", out |-> "none"]

NoOp == [op |-> "none", target |-> "none", id |-> "none", first |-> <<>>, times |-> 0]

NoCreate == [pc |-> "none"]
NoOutput == [op |-> "none"]

\* No collection, no reference on any user, no request running.
CollectionStart ==
    /\ collections = <<>>
    /\ users = [u \in UserIds |-> [collections |-> <<>>]]
    /\ creq = [p \in Procs |-> IdleCreate]

\* No membership request running, no rating reference on any recipe.
MemberStart ==
    /\ mreq = IdleMember
    /\ ratingRefs = [r \in RecipeIds |-> <<>>]
    /\ opLog = [collection |-> NoOp, recipe |-> NoOp, twice |-> {}]

\* No image, no recipe, nothing asked.
RecipeStart ==
    /\ images = {}
    /\ recipes = <<>>
    /\ createIn = NoCreate
    /\ createOut = NoCreate
    /\ viewOut = NoOutput
    /\ queryOut = NoOutput

----------------------------------------------------------------------------
(***************************************************************************)
(* Numbers.  $avg yields a fraction; it is kept exact as num/den in lowest *)
(* terms.                                                                  *)
(***************************************************************************)
RECURSIVE GCD(_, _)
GCD(a, b) == IF b = 0 THEN a ELSE GCD(b, a % b)

Rat(n, d) == [num |-> n \div GCD(n, d), den |-> d \div GCD(n, d)]

----------------------------------------------------------------------------
(***************************************************************************)
(* The rating summary of a recipe.                                         *)
(***************************************************************************)
\* RecipeFields.rating.default: the default names the field avgRating, not avg.
DefaultRating == [avgRating |-> Rat(0, 1), total |-> 0]

\* $match: { recipeId: this._id }
MatchRecipe(records, rid) == SelectSeq(records, LAMBDA x : x.recipeId = rid)

\* $group accumulators, folded over the matched records in order.
RECURSIVE GroupAcc(_, _)
GroupAcc(matched, acc) ==
    IF matched = <<>> THEN acc
    ELSE GroupAcc(Tail(matched),
                  [sum |-> acc.sum + Head(matched).rateValue, n |-> acc.n + 1])

\* A variant of the pipeline without its $match stage.
AggregateRatingNoMatch(records, rid) ==
    LET acc == GroupAcc(records, [sum |-> 0, n |-> 0])
    IN IF records = <<>> THEN <<>>
       ELSE << [_id |-> rid, avg |-> Rat(acc.sum, acc.n), total |-> acc.n] >>

\* Rating.aggregate([{$match}, {$group}]): no group when nothing matches.
AggregateRating(records, rid) ==
    LET matched == MatchRecipe(records, rid)
        acc == GroupAcc(matched, [sum |-> 0, n |-> 0])
    IN IF matched = <<>> THEN <<>>
       ELSE << [_id |-> rid, avg |-> Rat(acc.sum, acc.n), total |-> acc.n] >>

\* delete results[0]._id
DeleteField(doc, f) == [k \in DOMAIN doc \ {f} |-> doc[k]]

\* delete results[0]._id; this.rating = results[0]
AssignedRating(results) == DeleteField(results[1], "_id")

IdleUpd == [pc |-> "idle", recipe |-> "none", loaded |-> DefaultRating,
            rating |-> DefaultRating, results |-> <<>>]

----------------------------------------------------------------------------
(***************************************************************************)
(* Rating requests.                                                        *)
(***************************************************************************)
\* Rating.create (the rating model is not part of the sources).
CreateRating(r, v) ==
    /\ Len(ratingRecords) < MaxRatings
    /\ ratingRecords' = Append(ratingRecords, [recipeId |-> r, rateValue |-> v])
    /\ UNCHANGED <<recipeRating, upd, lastSaver>>
    /\ UNCHANGED notRating

\* The recipe document is loaded for the request (Recipe.findById).
LoadRecipe(p, r) ==
    /\ upd[p].pc = "idle"
    /\ upd' = [upd EXCEPT ![p] = [pc |-> "loaded", recipe |-> r,
                                  loaded |-> recipeRating[r],
                                  rating |-> recipeRating[r], results |-> <<>>]]
    /\ UNCHANGED <<ratingRecords, recipeRating, lastSaver>>
    /\ UNCHANGED notRating

\* updateRating, up to the await of Rating.aggregate.
UpdateRatingAggregate(p) ==
    /\ upd[p].pc = "loaded"
    /\ upd' = [upd EXCEPT ![p].pc = "aggregated",
                          ![p].results = AggregateRating(ratingRecords, upd[p].recipe)]
    /\ UNCHANGED <<ratingRecords, recipeRating, lastSaver>>
    /\ UNCHANGED notRating

\* A variant that treats "no ratings" as a reset of the summary and saves it.
UpdateRatingResetOnEmpty(p) ==
    /\ upd[p].pc = "aggregated"
    /\ upd[p].results = <<>>
    /\ LET zero == [avg |-> Rat(0, 1), total |-> 0]
       IN /\ upd' = [upd EXCEPT ![p].pc = "typeError", ![p].rating = zero]
          /\ recipeRating' = [recipeRating EXCEPT ![upd[p].recipe] = zero]
    /\ UNCHANGED <<ratingRecords, lastSaver>>
    /\ UNCHANGED notRating

\* updateRating after the await: results[0] is undefined when nothing matched,
\* so `delete results[0]._id` throws and the promise is rejected before save.
UpdateRatingThrow(p) ==
    /\ upd[p].pc = "aggregated"
    /\ upd[p].results = <<>>
    /\ upd' = [upd EXCEPT ![p].pc = "typeError"]
    /\ UNCHANGED <<ratingRecords, recipeRating, lastSaver>>
    /\ UNCHANGED notRating

\* A variant that saves without assigning the recomputed summary.
UpdateRatingSaveUnassigned(p, ok) ==
    /\ upd[p].pc = "aggregated"
    /\ upd[p].results # <<>>
    /\ IF ok
       THEN /\ upd' = [upd EXCEPT ![p].pc = "saved"]
            /\ recipeRating' = [recipeRating EXCEPT ![upd[p].recipe] = upd[p].rating]
            /\ lastSaver' = [lastSaver EXCEPT ![upd[p].recipe] = p]
       ELSE /\ upd' = [upd EXCEPT ![p].pc = "saveError"]
            /\ UNCHANGED <<recipeRating, lastSaver>>
    /\ UNCHANGED ratingRecords
    /\ UNCHANGED notRating

\* updateRating after the await: assign the summary and save the recipe.
UpdateRatingSave(p, ok) ==
    /\ upd[p].pc = "aggregated"
    /\ upd[p].results # <<>>
    /\ LET r == upd[p].recipe
           summary == AssignedRating(upd[p].results)
       IN IF ok
          THEN /\ upd' = [upd EXCEPT ![p].pc = "saved", ![p].rating = summary]
               /\ recipeRating' = [recipeRating EXCEPT ![r] = summary]
               /\ lastSaver' = [lastSaver EXCEPT ![r] = p]
          ELSE /\ upd' = [upd EXCEPT ![p].pc = "saveError", ![p].rating = summary]
               /\ UNCHANGED <<recipeRating, lastSaver>>
    /\ UNCHANGED ratingRecords
    /\ UNCHANGED notRating

\* The request is over; its slot serves the next one.
FinishUpdate(p) ==
    /\ upd[p].pc \in {"saved", "typeError", "saveError"}
    /\ upd' = [upd EXCEPT ![p] = IdleUpd]
    /\ UNCHANGED <<ratingRecords, recipeRating, lastSaver>>
    /\ UNCHANGED notRating

\* No rating yet, every recipe with the default summary, no request running.
RatingStart ==
    /\ ratingRecords = <<>>
    /\ recipeRating = [r \in RecipeIds |-> DefaultRating]
    /\ upd = [p \in Procs |-> IdleUpd]
    /\ lastSaver = [r \in RecipeIds |-> "none"]

InitRating == RatingStart /\ CollectionStart /\ MemberStart /\ RecipeStart

UpdStep(p) ==
    \/ \E r \in RecipeIds : LoadRecipe(p, r)
    \/ UpdateRatingAggregate(p)
    \/ UpdateRatingThrow(p)
    \/ \E ok \in BOOLEAN : UpdateRatingSave(p, ok)
    \/ FinishUpdate(p)

\* Requests interleave freely with each other and with new ratings.
NextRatingRace ==
    \/ \E r \in RecipeIds, v \in RateValues : CreateRating(r, v)
    \/ \E p \in Procs : UpdStep(p)

SpecRatingRace == InitRating /\ [][NextRatingRace]_vars

\* One request at a time, and no rating is written while it runs.
Quiet(p) == \A q \in Procs \ {p} : upd[q].pc = "idle"

NextRatingSeq ==
    \/ /\ \A p \in Procs : upd[p].pc = "idle"
       /\ \E r \in RecipeIds, v \in RateValues : CreateRating(r, v)
    \/ \E p \in Procs : Quiet(p) /\ UpdStep(p)

SpecRatingSeq == InitRating /\ [][NextRatingSeq]_vars

----------------------------------------------------------------------------
(***************************************************************************)
(* Properties of the rating rollup.                                        *)
(***************************************************************************)
RatingIndexes(r) == {i \in 1..Len(ratingRecords) : ratingRecords[i].recipeId = r}

RECURSIVE SumRates(_)
SumRates(I) ==
    IF I = {} THEN 0
    ELSE LET i == CHOOSE x \in I : TRUE
         IN ratingRecords[i].rateValue + SumRates(I \ {i})

C3_SummaryIsMeanAndCount ==
    \A p \in Procs :
        upd[p].pc = "saved" =>
            LET r == upd[p].recipe
                s == recipeRating[r]
                I == RatingIndexes(r)
            IN /\ DOMAIN s = {"avg", "total"}
               /\ s.total = Cardinality(I)
               /\ s.total >= 1
               /\ s.avg.num * s.total = s.avg.den * SumRates(I)

\* C3 witness: ratings 3 and 5 of one recipe, a rating of another recipe, and
\* the stored summary {avg: 4, total: 2}.
C3_ThreeFiveGivesFour ==
    \E p \in Procs :
        /\ upd[p].pc = "saved"
        /\ LET r == upd[p].recipe
           IN /\ {ratingRecords[i].rateValue : i \in RatingIndexes(r)} = {3, 5}
              /\ Cardinality(RatingIndexes(r)) = 2
              /\ Len(ratingRecords) = 3
              /\ recipeRating[r] = [avg |-> [num |-> 4, den |-> 1], total |-> 2]

\* C9: when no rating record matches the recipe, updateRating is rejected
\* without a save: the recipe in memory and the stored summary are what was
\* loaded, not {avg: 0, total: 0}.
C9_NoRatingsRejectsUnchanged ==
    \A p \in Procs :
        /\ upd[p].pc = "typeError" =>
              /\ RatingIndexes(upd[p].recipe) = {}
              /\ upd[p].rating = upd[p].loaded
              /\ recipeRating[upd[p].recipe] = upd[p].loaded
              /\ recipeRating[upd[p].recipe] # [avg |-> Rat(0, 1), total |-> 0]
              /\ lastSaver[upd[p].recipe] = "none"
        /\ upd[p].pc \in {"saved", "saveError"} => RatingIndexes(upd[p].recipe) # {}

\* C9 witness: a rejected updateRating on a recipe without ratings, while
\* another recipe has some.
C9_RejectedReached ==
    \E p \in Procs :
        /\ upd[p].pc = "typeError"
        /\ RatingIndexes(upd[p].recipe) = {}
        /\ ratingRecords # <<>>

----------------------------------------------------------------------------
(***************************************************************************)
(* Collections: createCollection.                                          *)
(***************************************************************************)
\* user.createCollection(id): adds the reference to the user's profile if it
\* is not there (spec 6; the user model is not part of the sources).
UserCreateCollection(list, c) ==
    IF \E i \in 1..Len(list) : list[i] = c THEN list ELSE Append(list, c)

\* The id the store gives the next collection.
FreshCollection == Cardinality(DOMAIN collections) + 1

\* A request arrives; req.user is the authenticated user's document.
StartCreate(p) ==
    /\ creq[p].pc = "idle"
    /\ Cardinality(DOMAIN collections) < MaxCollections
    /\ creq' = [creq EXCEPT ![p] = [IdleCreate EXCEPT !.pc = "started",
                                        !.user = users[UserOf[p]].collections]]
    /\ UNCHANGED <<collections, users, notCreateCollection>>

\* await Collection.create({name, createdBy}): stored, or rejected (validation
\* of the name, or the store) and forwarded by the catch.
CreateCollectionDoc(p, ok) ==
    /\ creq[p].pc = "started"
    /\ ok => Cardinality(DOMAIN collections) < MaxCollections
    /\ IF ok
       THEN /\ collections' = collections @@
                  (FreshCollection :> [createdBy |-> UserOf[p], recipes |-> <<>>])
            /\ creq' = [creq EXCEPT ![p].pc = "created", ![p].coll = FreshCollection]
       ELSE /\ creq' = [creq EXCEPT ![p].pc = "failed", ![p].forwarded = @ + 1]
            /\ UNCHANGED collections
    /\ UNCHANGED <<users, notCreateCollection>>

\* A variant that deletes the collection again when the owner cannot be saved.
SaveOwnerRollback(p, ok) ==
    /\ creq[p].pc = "created"
    /\ LET mine == UserCreateCollection(creq[p].user, creq[p].coll)
       IN IF ok
          THEN /\ users' = [users EXCEPT ![UserOf[p]].collections = mine]
               /\ creq' = [creq EXCEPT ![p].pc = "ownerSaved", ![p].user = mine]
               /\ UNCHANGED collections
          ELSE /\ creq' = [creq EXCEPT ![p].pc = "failed", ![p].user = mine,
                                       ![p].forwarded = @ + 1]
               /\ collections' = [c \in DOMAIN collections \ {creq[p].coll} |-> collections[c]]
               /\ UNCHANGED users
    /\ UNCHANGED notCreateCollection

\* await user.createCollection(collection.id).save(): the reference is added
\* to req.user and the user is saved, or the save is rejected and forwarded.
SaveOwner(p, ok) ==
    /\ creq[p].pc = "created"
    /\ LET mine == UserCreateCollection(creq[p].user, creq[p].coll)
       IN IF ok
          THEN /\ users' = [users EXCEPT ![UserOf[p]].collections = mine]
               /\ creq' = [creq EXCEPT ![p].pc = "ownerSaved", ![p].user = mine]
          ELSE /\ creq' = [creq EXCEPT ![p].pc = "failed", ![p].user = mine,
                                       ![p].forwarded = @ + 1]
               /\ UNCHANGED users
    /\ UNCHANGED <<collections, notCreateCollection>>

\* res.sendAndWrap(collection, 'collection')
RespondCreate(p) ==
    /\ creq[p].pc = "ownerSaved"
    /\ creq' = [creq EXCEPT ![p].pc = "sent", ![p].sent = @ + 1]
    /\ UNCHANGED <<collections, users, notCreateCollection>>

\* The request is over; its slot serves the next one.
FinishCreate(p) ==
    /\ creq[p].pc \in {"sent", "failed"}
    /\ creq' = [creq EXCEPT ![p] = IdleCreate]
    /\ UNCHANGED <<collections, users, notCreateCollection>>

CreateStep(p) ==
    \/ StartCreate(p)
    \/ \E ok \in BOOLEAN : CreateCollectionDoc(p, ok)
    \/ \E ok \in BOOLEAN : SaveOwner(p, ok)
    \/ RespondCreate(p)
    \/ FinishCreate(p)

NextCreateCollection == \E p \in Procs : CreateStep(p)

InitCreateCollection == RatingStart /\ CollectionStart /\ MemberStart /\ RecipeStart

SpecCreateCollection == InitCreateCollection /\ [][NextCreateCollection]_vars

\* C10: createCollection stores the collection before the owner refers to it
\* and answers only after both were stored; a run ends with one response or
\* one forwarded error, never both; when the owner's save fails the error is
\* forwarded, nothing is sent, and the collection stays stored with no
\* reference from the owner.
C10_CreateThenLinkThenRespond ==
    /\ \A u \in UserIds : \A i \in 1..Len(users[u].collections) :
           /\ users[u].collections[i] \in DOMAIN collections
           /\ collections[users[u].collections[i]].createdBy = u
    /\ \A p \in Procs :
           LET q == creq[p]
               stored == users[UserOf[p]].collections
               linked == \E i \in 1..Len(stored) : stored[i] = q.coll
           IN /\ q.sent + q.forwarded <= 1
              /\ q.pc \in {"sent", "failed"} <=> q.sent + q.forwarded = 1
              /\ q.pc = "sent" => q.sent = 1 /\ q.coll \in DOMAIN collections /\ linked
              /\ q.pc = "failed" => q.forwarded = 1
              /\ (q.pc = "failed" /\ q.coll # 0) =>
                    /\ q.coll \in DOMAIN collections
                    /\ collections[q.coll].createdBy = UserOf[p]
                    /\ ~linked
              /\ q.pc \in {"created", "ownerSaved"} => q.coll \in DOMAIN collections

\* C10 witness: the owner's save failed after the collection was stored, while
\* another request was answered.
C10_OrphanReached ==
    \E p \in Procs, q \in Procs :
        /\ creq[p].pc = "failed" /\ creq[p].coll \in DOMAIN collections
        /\ creq[p].forwarded = 1 /\ creq[p].sent = 0
        /\ creq[q].pc = "sent"

----------------------------------------------------------------------------
(***************************************************************************)
(* Reference lists: recipe.addRating, collection.addRecipe / removeRecipe. *)
(***************************************************************************)
\* this.ratings.includes(ratingId)
Includes(list, id) == \E i \in 1..Len(list) : list[i] = id

\* A variant of addRating without the membership test.
AddRatingUnchecked(ratings, ratingId) == Append(ratings, ratingId)

\* RecipeSchema.methods.addRating
AddRating(ratings, ratingId) ==
    IF ~Includes(ratings, ratingId) THEN Append(ratings, ratingId) ELSE ratings

\* collection.addRecipe(recipeId): set insert (spec 4.3; the collection model
\* is not part of the sources).
CollectionAddRecipe(list, recipeId) ==
    IF Includes(list, recipeId) THEN list ELSE Append(list, recipeId)

\* collection.removeRecipe(recipeId): set delete (spec 4.3).
CollectionRemoveRecipe(list, recipeId) == SelectSeq(list, LAMBDA x : x # recipeId)

\* The log entry after `op` was applied to `target` with `id`, leaving `list`:
\* a repetition of the last operation is counted, anything else starts anew.
Logged(last, op, target, id, list) ==
    IF last.op = op /\ last.target = target /\ last.id = id
    THEN [last EXCEPT !.times = 2]
    ELSE [op |-> op, target |-> target, id |-> id, first |-> list, times |-> 1]

\* preloadCollection: Collection.findById, HTTP404Error when there is none.
PreloadCollection(op, c) ==
    /\ mreq.pc = "idle"
    /\ IF c \in DOMAIN collections
       THEN mreq' = [IdleMember EXCEPT !.pc = "collection", !.op = op, !.collId = c,
                                       !.collection = collections[c].recipes]
       ELSE mreq' = [IdleMember EXCEPT !.pc = "failed", !.op = op, !.out = "HTTP404Error"]
    /\ UNCHANGED <<collections, ratingRefs, opLog, notMember>>

\* preloadRecipe: Recipe.findById, HTTP404Error when there is none.
PreloadRecipe(r) ==
    /\ mreq.pc = "collection"
    /\ IF r \in RecipeIds
       THEN mreq' = [mreq EXCEPT !.pc = "recipe", !.recipe = r]
       ELSE mreq' = [mreq EXCEPT !.pc = "failed", !.out = "HTTP404Error"]
    /\ UNCHANGED <<collections, ratingRefs, opLog, notMember>>

\* The handler's change of req.collection, then collection.save(): stored and
\* answered, or rejected and forwarded.
SaveMembership(list, ok) ==
    /\ IF ok
       THEN /\ collections' = [collections EXCEPT ![mreq.collId].recipes = list]
            /\ mreq' = [mreq EXCEPT !.pc = "sent", !.collection = list, !.out = "collection"]
            /\ LET entry == Logged(opLog.collection, mreq.op, mreq.collId, mreq.recipe, list)
               IN opLog' = [opLog EXCEPT !.collection = entry,
                                         !.twice = IF entry.times = 2 THEN @ \cup {mreq.op} ELSE @]
       ELSE /\ mreq' = [mreq EXCEPT !.pc = "failed", !.collection = list, !.out = "error"]
            /\ UNCHANGED <<collections, opLog>>
    /\ UNCHANGED <<ratingRefs, notMember>>

\* CollectionController.addRecipe
AddRecipe(ok) ==
    /\ mreq.pc = "recipe" /\ mreq.op = "addRecipe"
    /\ SaveMembership(CollectionAddRecipe(mreq.collection, mreq.recipe), ok)

\* CollectionController.removeRecipe
RemoveRecipe(ok) ==
    /\ mreq.pc = "recipe" /\ mreq.op = "removeRecipe"
    /\ SaveMembership(CollectionRemoveRecipe(mreq.collection, mreq.recipe), ok)

\* The request is over.
FinishMember ==
    /\ mreq.pc \in {"sent", "failed"}
    /\ mreq' = IdleMember
    /\ UNCHANGED <<collections, ratingRefs, opLog, notMember>>

\* A rating is attached to a recipe: the recipe is loaded, addRating is
\* applied and the caller saves the recipe (spec 4.1: addRating does not
\* persist).
RateRecipe(r, g) ==
    /\ mreq.pc = "idle"
    /\ ratingRefs' = [ratingRefs EXCEPT ![r] = AddRating(@, g)]
    /\ LET entry == Logged(opLog.recipe, "addRating", r, g, AddRating(ratingRefs[r], g))
       IN opLog' = [opLog EXCEPT !.recipe = entry,
                                 !.twice = IF entry.times = 2 THEN @ \cup {"addRating"} ELSE @]
    /\ UNCHANGED <<collections, mreq, notMember>>

NextMembership ==
    \/ \E op \in {"addRecipe", "removeRecipe"}, c \in 1..MaxCollections :
           PreloadCollection(op, c)
    \/ \E r \in RecipeIds \cup {MissingRecipe} : PreloadRecipe(r)
    \/ \E ok \in BOOLEAN : AddRecipe(ok)
    \/ \E ok \in BOOLEAN : RemoveRecipe(ok)
    \/ FinishMember
    \/ \E r \in RecipeIds, g \in RatingIds : RateRecipe(r, g)

\* One collection exists, created by its owner and still empty.
InitMembership ==
    /\ RatingStart /\ MemberStart /\ RecipeStart
    /\ collections = (1 :> [createdBy |-> "u1", recipes |-> <<>>])
    /\ users = [u \in UserIds |-> [collections |-> IF u = "u1" THEN <<1>> ELSE <<>>]]
    /\ creq = [p \in Procs |-> IdleCreate]

SpecMembership == InitMembership /\ [][NextMembership]_vars

NoDuplicates(list) == \A i, j \in 1..Len(list) : list[i] = list[j] => i = j

\* C1: addRating, addRecipe and removeRecipe are idempotent set operations:
\* applied twice they leave the list that one application leaves, no id is
\* ever twice in a stored list, and removing an absent id changes nothing.
C1_IdempotentSetOperations ==
    /\ \A r \in RecipeIds :
           /\ NoDuplicates(ratingRefs[r])
           /\ \A g \in RatingIds :
                  AddRating(AddRating(ratingRefs[r], g), g) = AddRating(ratingRefs[r], g)
    /\ \A c \in DOMAIN collections :
           LET list == collections[c].recipes
           IN /\ NoDuplicates(list)
              /\ \A r \in RecipeIds :
                     /\ CollectionAddRecipe(CollectionAddRecipe(list, r), r)
                            = CollectionAddRecipe(list, r)
                     /\ CollectionRemoveRecipe(CollectionRemoveRecipe(list, r), r)
                            = CollectionRemoveRecipe(list, r)
                     /\ ~Includes(list, r) => CollectionRemoveRecipe(list, r) = list
                     /\ Includes(CollectionAddRecipe(list, r), r)
                     /\ ~Includes(CollectionRemoveRecipe(list, r), r)
    /\ opLog.collection.times = 2 =>
           collections[opLog.collection.target].recipes = opLog.collection.first
    /\ opLog.recipe.times = 2 => ratingRefs[opLog.recipe.target] = opLog.recipe.first

\* C1 witness: a rating was added twice in a row, a recipe was added twice in
\* a row to a collection, and it has just been removed twice in a row, the
\* second time from the list it was no longer in; the lists are {g1} and {}.
C1_TwiceReached ==
    /\ opLog.twice = {"addRating", "addRecipe", "removeRecipe"}
    /\ opLog.recipe.times = 2 /\ opLog.recipe.id = "g1"
    /\ ratingRefs[opLog.recipe.target] = <<"g1">>
    /\ opLog.collection.op = "removeRecipe" /\ opLog.collection.times = 2
    /\ opLog.collection.id = "r1" /\ opLog.collection.target = 1
    /\ collections[1].recipes = <<>>
    /\ mreq.pc = "sent" /\ mreq.out = "collection"

----------------------------------------------------------------------------
(***************************************************************************)
(* Recipe.create: the schema and its validation.                           *)
(***************************************************************************)
\* The declarations of RecipeFields that validation reads.
RecipeFields ==
    [name        |-> [type |-> "String", required |-> TRUE],
     category    |-> [type |-> "String", required |-> TRUE],
     description |-> [type |-> "String"],
     servings    |-> [type |-> "Number", min |-> MinServings, max |-> MaxServings,
                      required |-> TRUE],
     time        |-> [type |-> "Number", min |-> MinTime, max |-> MaxTime],
     createdBy   |-> [type |-> "ObjectId", required |-> TRUE],
     banners     |-> [type |-> "Array", minlength |-> MinBanners, maxlength |-> MaxBanners,
                      required |-> TRUE],
     ingredients |-> [type |-> "Array", default |-> <<>>],
     methods     |-> [type |-> "Array", required |-> TRUE],
     rating      |-> [type |-> "Mixed", default |-> DefaultRating],
     ratings     |-> [type |-> "Array", default |-> <<>>],
     tags        |-> [type |-> "Array"]]

Declares(path, option) == option \in DOMAIN RecipeFields[path]

\* The document a create builds from its input: an array path that is not
\* given is an empty array, and the declared defaults are filled in.
WithDefaults(input) ==
    [path \in DOMAIN input \cup
              {q \in DOMAIN RecipeFields :
                   RecipeFields[q].type = "Array" \/ Declares(q, "default")} |->
        IF path \in DOMAIN input THEN input[path]
        ELSE IF Declares(path, "default") THEN RecipeFields[path].default
        ELSE <<>>]

\* required: a value must be there.  For an array path the schema library
\* asks for an array; whether an empty one passes depends on its release
\* (`emptyPasses`).
RequiredFails(path, doc, emptyPasses) ==
    /\ Declares(path, "required") /\ RecipeFields[path].required
    /\ IF RecipeFields[path].type = "Array"
       THEN doc[path] = <<>> /\ ~emptyPasses
       ELSE path \notin DOMAIN doc

\* min / max: the validators of a number path.
RangeFails(path, doc) ==
    /\ RecipeFields[path].type = "Number"
    /\ path \in DOMAIN doc
    /\ \/ Declares(path, "min") /\ doc[path] < RecipeFields[path].min
       \/ Declares(path, "max") /\ doc[path] > RecipeFields[path].max

\* minlength / maxlength: the validators of a string path.  The schema
\* library attaches them to string paths only; declared on a path of another
\* type they validate nothing.
LengthFails(path, doc) ==
    /\ RecipeFields[path].type = "String"
    /\ path \in DOMAIN doc
    /\ \/ Declares(path, "minlength") /\ Len(doc[path]) < RecipeFields[path].minlength
       \/ Declares(path, "maxlength") /\ Len(doc[path]) > RecipeFields[path].maxlength

\* Image.checkImagesExist(refs): whether all the references are stored images
\* (spec 4.4; the image model is not part of the sources).
CheckImagesExist(refs) == \A i \in 1..Len(refs) : refs[i] \in images

\* A variant of the banner validator whose answer is always taken as yes.
BannersValidatorAlwaysTrue(v) == TRUE

\* RecipeSchema.path('banners').validate: async validator(v)
BannersValidator(v) == CheckImagesExist(v)

\* The validation errors of a document: the failing (path, validator) pairs.
ValidationErrors(doc, emptyPasses) ==
    {<<path, "required">> : path \in {q \in DOMAIN RecipeFields :
                                          RequiredFails(q, doc, emptyPasses)}}
    \cup {<<path, "range">> : path \in {q \in DOMAIN RecipeFields : RangeFails(q, doc)}}
    \cup {<<path, "length">> : path \in {q \in DOMAIN RecipeFields : LengthFails(q, doc)}}
    \cup (IF BannersValidator(doc.banners) THEN {} ELSE {<<"banners", "Image not exists">>})

\* ImageController.uploadImage: Image.create, then the answer; a rejected
\* create is forwarded.
UploadImage(i, ok) ==
    /\ images' = IF ok THEN images \cup {i} ELSE images
    /\ UNCHANGED <<recipes, createIn, createOut, viewOut, queryOut, notRecipe>>

\* Recipe.create(createIn): validate, then store.
CreateRecipe(emptyPasses) ==
    /\ createOut.pc = "pending"
    /\ LET doc == WithDefaults(createIn)
           errors == ValidationErrors(doc, emptyPasses)
       IN IF errors = {}
          THEN /\ recipes' = Append(recipes, doc @@ ("_id" :> Len(recipes) + 1))
               /\ createOut' = [pc |-> "done", error |-> "none", errors |-> errors,
                                images |-> images]
          ELSE /\ createOut' = [pc |-> "done", error |-> "ValidationError",
                                errors |-> errors, images |-> images]
               /\ UNCHANGED recipes
    /\ UNCHANGED <<images, createIn, viewOut, queryOut, notRecipe>>

Opt(name, values) == {<<>>} \cup {name :> v : v \in values}

\* The banner lists tried: n different images for each n, and one image twice.
BannerLists == {[i \in 1..n |-> i] : n \in 0..MaxBannersTried} \cup {<<1, 1>>}

\* The inputs tried: any banner list, servings and time at and around their
\* limits or missing, the name given or not, the rest valid.
CreateInputs ==
    {[category |-> "soup", createdBy |-> "u1", methods |-> <<"boil">>] @@ b @@ s @@ t @@ n :
        b \in Opt("banners", BannerLists),
        s \in Opt("servings", {MinServings - 1, MinServings, MaxServings, MaxServings + 1}),
        t \in Opt("time", {MinTime - 1, MaxTime, MaxTime + 1}),
        n \in Opt("name", {"stew"})}

InitCreateRecipe ==
    /\ RatingStart /\ CollectionStart /\ MemberStart
    /\ images = {}
    /\ recipes = <<>>
    /\ createIn \in CreateInputs
    /\ createOut = [pc |-> "pending"]
    /\ viewOut = NoOutput
    /\ queryOut = NoOutput

NextCreateRecipe ==
    \/ \E i \in ImageIds, ok \in BOOLEAN : UploadImage(i, ok)
    \/ \E emptyPasses \in BOOLEAN : CreateRecipe(emptyPasses)

SpecCreateRecipe == InitCreateRecipe /\ [][NextCreateRecipe]_vars

\* The create under test has ended.
Created == createOut.pc = "done"

GivenBanners == IF "banners" \in DOMAIN createIn THEN createIn.banners ELSE <<>>

\* Every field but the banners passes its validators.
OtherFieldsValid ==
    /\ "name" \in DOMAIN createIn
    /\ "servings" \in DOMAIN createIn
    /\ createIn.servings >= MinServings /\ createIn.servings <= MaxServings
    /\ "time" \in DOMAIN createIn => createIn.time >= MinTime /\ createIn.time <= MaxTime

\* C4: a create with 0 or 5 banner references, every one of them a stored
\* image and every other field valid, ends in ValidationError and stores
\* nothing.
C4_BannerCountRejected ==
    ( /\ Created
      /\ Len(GivenBanners) \in {MinBanners - 1, MaxBanners + 1}
      /\ OtherFieldsValid
      /\ \A i \in 1..Len(GivenBanners) : GivenBanners[i] \in createOut.images )
    => createOut.error = "ValidationError" /\ recipes = <<>>

\* C5: a create in which a banner reference is not a stored image ends in
\* ValidationError and stores nothing; the banner validator fails exactly
\* when not all the references are stored images.
C5_DanglingBannerRejected ==
    Created =>
        LET dangling == \E i \in 1..Len(GivenBanners) : GivenBanners[i] \notin createOut.images
        IN /\ dangling => createOut.error = "ValidationError" /\ recipes = <<>>
           /\ dangling <=> <<"banners", "Image not exists">> \in createOut.errors
           /\ createOut.error = "ValidationError" <=> recipes = <<>>

\* C5 witness: two banners, one stored and one not, every other field valid:
\* the only error is the banner validator's.
C5_DanglingReached ==
    /\ Created
    /\ OtherFieldsValid
    /\ Len(GivenBanners) = 2
    /\ GivenBanners[1] \in createOut.images /\ GivenBanners[2] \notin createOut.images
    /\ createOut.errors = {<<"banners", "Image not exists">>}
    /\ createOut.error = "ValidationError" /\ recipes = <<>>

----------------------------------------------------------------------------
(***************************************************************************)
(* Views of a recipe document.                                             *)
(***************************************************************************)
NoUser == [given |-> FALSE, id |-> "none", savedRecipes |-> {}]

\* delete recipe.<field>, for each of the fields
DeleteFields(doc, fields) == [k \in DOMAIN doc \ fields |-> doc[k]]

\* RecipeSchema.virtual('image_url')
ImageUrl(doc) == IF Len(doc.banners) = 0 THEN "" ELSE doc.banners[1].url

\* toJSON: the document with its virtuals (id, image_url), then the transform.
ToJSON(doc) ==
    DeleteFields(doc @@ ("id" :> doc._id) @@ ("image_url" :> ImageUrl(doc)),
                 {"_id", "ratings", "updatedAt"})

\* user.didSaveRecipe(recipe): whether the recipe is in the user's saved list
\* (spec 6; the user model is not part of the sources).
DidSaveRecipe(user, doc) == doc._id \in user.savedRecipes

\* RecipeSchema.methods.isCreatedBy
IsCreatedBy(doc, user) == doc.createdBy = user.id

\* RecipeSchema.methods.toJSONFor
ToJSONFor(doc, user) ==
    ("savedByUser" :> DidSaveRecipe(user, doc))
        @@ ("createdByUser" :> IsCreatedBy(doc, user)) @@ ToJSON(doc)

\* The fields toThumbnailFor deletes.
ThumbnailDeletes ==
    {"createdBy", "banners", "createdAt", "ingredients", "methods", "servings",
     "description", "category", "tags", "time", "status"}

\* A variant of toSearchResultFor's deletions that leaves the score in.
SearchResultDeletesKeepScore ==
    {"banners", "createdAt", "createdBy", "ingredients", "methods", "servings",
     "description", "category", "tags", "time", "status"}

\* The fields toSearchResultFor deletes.
SearchResultDeletes ==
    {"banners", "createdAt", "createdBy", "ingredients", "methods", "servings",
     "description", "category", "tags", "time", "status", "score"}

\* RecipeSchema.methods.toThumbnailFor
ToThumbnailFor(doc, user) ==
    DeleteFields(IF user.given THEN ToJSONFor(doc, user) ELSE ToJSON(doc), ThumbnailDeletes)

\* RecipeSchema.methods.toSearchResultFor
ToSearchResultFor(doc, user) ==
    DeleteFields(IF user.given THEN ToJSONFor(doc, user) ELSE ToJSON(doc), SearchResultDeletes)

\* recipe.toThumbnailFor(user) is called on a stored recipe.
Thumbnail(i, user) ==
    /\ viewOut' = [op |-> "toThumbnailFor", recipe |-> i, user |-> user,
                   out |-> ToThumbnailFor(recipes[i], user)]
    /\ UNCHANGED <<images, recipes, createIn, createOut, queryOut, notRecipe>>

\* recipe.toSearchResultFor(user) is called on a stored recipe.
SearchResult(i, user) ==
    /\ viewOut' = [op |-> "toSearchResultFor", recipe |-> i, user |-> user,
                   out |-> ToSearchResultFor(recipes[i], user)]
    /\ UNCHANGED <<images, recipes, createIn, createOut, queryOut, notRecipe>>

\* The users a view is computed for: nobody, or a user who saved the recipe
\* or did not.
ViewUsers ==
    {NoUser} \cup {[given |-> TRUE, id |-> u, savedRecipes |-> saved] :
                       u \in UserIds, saved \in SUBSET {1}}

\* The recipes viewed: with or without each optional field (score is what a
\* text search attaches), by either user, with a banner or none.
ViewDocs ==
    {[_id |-> 1, name |-> "stew", category |-> "soup", servings |-> MinServings,
      ingredients |-> <<>>, methods |-> <<"boil">>, rating |-> DefaultRating,
      ratings |-> <<>>, tags |-> <<>>, createdAt |-> "t0", updatedAt |-> "t0"]
         @@ c @@ b @@ d @@ t @@ st @@ sc :
        c \in {"createdBy" :> u : u \in UserIds},
        b \in {"banners" :> x : x \in {<<>>, <<[id |-> 1, url |-> "url1"]>>}},
        d \in Opt("description", {"hot"}),
        t \in Opt("time", {MaxTime}),
        st \in Opt("status", BOOLEAN),
        sc \in Opt("score", {10})}

InitViews ==
    /\ RatingStart /\ CollectionStart /\ MemberStart
    /\ images = {1}
    /\ \E doc \in ViewDocs : recipes = <<doc>>
    /\ createIn = NoCreate
    /\ createOut = NoCreate
    /\ viewOut = NoOutput
    /\ queryOut = NoOutput

NextViews ==
    \/ \E i \in 1..Len(recipes), user \in ViewUsers : Thumbnail(i, user)
    \/ \E i \in 1..Len(recipes), user \in ViewUsers : SearchResult(i, user)

SpecViews == InitViews /\ [][NextViews]_vars

DetailFields ==
    {"banners", "ingredients", "methods", "description", "category", "tags", "time",
     "status", "createdAt"}

\* C6: the thumbnail and search-result views hold none of banners,
\* ingredients, methods, description, category, tags, time, status, createdAt;
\* the search result holds no score either; for a given user both carry
\* savedByUser and createdByUser as computed on the recipe itself.
C6_ViewsStripDetail ==
    viewOut.op \in {"toThumbnailFor", "toSearchResultFor"} =>
        LET doc == recipes[viewOut.recipe]
            out == viewOut.out
        IN /\ DOMAIN out \cap DetailFields = {}
           /\ viewOut.op = "toSearchResultFor" => "score" \notin DOMAIN out
           /\ viewOut.user.given =>
                  /\ {"savedByUser", "createdByUser"} \subseteq DOMAIN out
                  /\ out.savedByUser = (doc._id \in viewOut.user.savedRecipes)
                  /\ out.createdByUser = (doc.createdBy = viewOut.user.id)
           /\ ~viewOut.user.given => DOMAIN out \cap {"savedByUser", "createdByUser"} = {}

\* C6 witness: the search result, for a user who saved a recipe created by
\* somebody else, of a recipe with every optional field and a score.
C6_SearchResultReached ==
    /\ viewOut.op = "toSearchResultFor"
    /\ {"description", "time", "status", "score"} \subseteq DOMAIN recipes[viewOut.recipe]
    /\ Len(recipes[viewOut.recipe].banners) = 1
    /\ viewOut.user.given
    /\ viewOut.out.savedByUser /\ ~viewOut.out.createdByUser
    /\ viewOut.out.image_url = "url1"

----------------------------------------------------------------------------
(***************************************************************************)
(* The listing queries of the recipe model.                                *)
(***************************************************************************)
\* The orders in which a query may meet the n stored documents: neither the
\* aggregation nor the sort fixes the order of documents it does not order.
Orders(n) == {f \in [1..n -> 1..n] : \A i, j \in 1..n : f[i] = f[j] => i = j}

Scanned(order) == [i \in 1..Len(recipes) |-> recipes[order[i]]]

NullValue == 0  \* no image has this id

\* $match without the visibility condition.
MatchAnyStatus(doc) == "category" \in DOMAIN doc

\* $match: { status: true, category: { $ne: null } }
MatchPublic(doc) ==
    /\ "status" \in DOMAIN doc /\ doc.status = TRUE
    /\ "category" \in DOMAIN doc

\* { $arrayElemAt: ["$banners", 0] }
FirstBanner(doc) == IF Len(doc.banners) = 0 THEN NullValue ELSE doc.banners[1]

\* $group: { _id: "$category", total: { $sum: 1 }, image_url: { $last: ... } }
RECURSIVE GroupCategories(_, _)
GroupCategories(docs, acc) ==
    IF docs = <<>> THEN acc
    ELSE LET d == Head(docs)
             at == {k \in 1..Len(acc) : acc[k]._id = d.category}
         IN IF at = {}
            THEN GroupCategories(Tail(docs),
                     Append(acc, [_id |-> d.category, total |-> 1,
                                  image_url |-> FirstBanner(d)]))
            ELSE LET k == CHOOSE x \in at : TRUE
                 IN GroupCategories(Tail(docs),
                        [acc EXCEPT ![k] = [_id |-> d.category, total |-> @.total + 1,
                                            image_url |-> FirstBanner(d)]])

\* Recipe.getCategories(limit): the pipeline is $match then $group; the
\* $limit stage is commented out, so limit is read by nothing.
GetCategories(limit) ==
    /\ \E order \in Orders(Len(recipes)) :
           queryOut' = [op |-> "getCategories", limit |-> limit,
                        out |-> GroupCategories(SelectSeq(Scanned(order), MatchPublic), <<>>)]
    /\ UNCHANGED <<images, recipes, createIn, createOut, viewOut, notRecipe>>

\* limit: number = null
NoLimit == [given |-> FALSE, n |-> 0]

Limits == {NoLimit} \cup {[given |-> TRUE, n |-> k] : k \in 0..MaxLimit}

Categories == {"soup", "salad"}

\* The documents of the collection when the categories are listed: of either
\* category or none, public, private or with no status stored.
GroupedDocs ==
    {[name |-> "stew"] @@ c @@ st @@ b :
        c \in Opt("category", Categories),
        st \in Opt("status", BOOLEAN),
        b \in {"banners" :> x : x \in {<<>>, <<1>>}}}

InitCategories ==
    /\ RatingStart /\ CollectionStart /\ MemberStart
    /\ images = {1}
    /\ recipes \in UNION {[1..n -> GroupedDocs] : n \in 0..MaxGrouped}
    /\ createIn = NoCreate
    /\ createOut = NoCreate
    /\ viewOut = NoOutput
    /\ queryOut = NoOutput

NextCategories == \E limit \in Limits : GetCategories(limit)

SpecCategories == InitCategories /\ [][NextCategories]_vars

\* The stored recipes of category c that are public.
PublicIn(c) ==
    {i \in 1..Len(recipes) :
        /\ "category" \in DOMAIN recipes[i] /\ recipes[i].category = c
        /\ "status" \in DOMAIN recipes[i] /\ recipes[i].status = TRUE}

\* C7: getCategories returns exactly one entry for each category that has a
\* status=true recipe, its total the number of those recipes, and no entry for
\* any other category, whatever limit is passed.
C7_OneEntryPerPublicCategory ==
    queryOut.op = "getCategories" =>
        LET out == queryOut.out
        IN /\ \A c \in Categories :
                  Cardinality({k \in 1..Len(out) : out[k]._id = c})
                      = IF PublicIn(c) = {} THEN 0 ELSE 1
           /\ \A k \in 1..Len(out) :
                  /\ out[k]._id \in Categories
                  /\ out[k].total = Cardinality(PublicIn(out[k]._id))

\* C7 witness: one category has a public recipe and the other only a private
\* one; the private one is left out, and the entry returned is more than the
\* limit of 0 that was passed.
C7_PrivateLeftOutLimitIgnored ==
    /\ queryOut.op = "getCategories"
    /\ queryOut.limit.given /\ queryOut.limit.n < Len(queryOut.out)
    /\ \E i \in 1..Len(recipes) :
           /\ "category" \in DOMAIN recipes[i]
           /\ "status" \in DOMAIN recipes[i] /\ recipes[i].status = FALSE
           /\ PublicIn(recipes[i].category) = {}
    /\ Len(queryOut.out) = 1

\* The sort of getHighRatedRecipes with its two keys exchanged.
SortSpecAvgFirst == <<[path |-> "avg", dir |-> -1], [path |-> "total", dir |-> -1]>>

\* { "rating.total": -1, "rating.avg": -1 }
SortSpec == <<[path |-> "total", dir |-> -1], [path |-> "avg", dir |-> -1]>>

\* How the values of a and b at rating.<path> compare (-1, 0, 1): a missing
\* field sorts as null, below every number; avg is a quotient, total a count.
CompareField(a, b, path) ==
    LET hasA == path \in DOMAIN a.rating
        hasB == path \in DOMAIN b.rating
    IN IF ~hasA \/ ~hasB
       THEN (IF hasA THEN 1 ELSE 0) - (IF hasB THEN 1 ELSE 0)
       ELSE LET l == IF path = "avg" THEN a.rating.avg.num * b.rating.avg.den
                     ELSE a.rating[path]
                r == IF path = "avg" THEN b.rating.avg.num * a.rating.avg.den
                     ELSE b.rating[path]
            IN IF l < r THEN -1 ELSE IF l > r THEN 1 ELSE 0

\* The order of a and b under the sort keys: negative when a comes first.
RECURSIVE CompareBy(_, _, _)
CompareBy(a, b, keys) ==
    IF keys = <<>> THEN 0
    ELSE LET c == CompareField(a, b, Head(keys).path) * Head(keys).dir
         IN IF c # 0 THEN c ELSE CompareBy(a, b, Tail(keys))

\* d put into the sorted list, behind everything that does not come after it.
RECURSIVE Insert(_, _)
Insert(sorted, d) ==
    IF sorted = <<>> THEN <<d>>
    ELSE IF CompareBy(Head(sorted), d, SortSpec) <= 0
         THEN <<Head(sorted)>> \o Insert(Tail(sorted), d)
         ELSE <<d>> \o sorted

RECURSIVE SortDocs(_, _)
SortDocs(docs, sorted) ==
    IF docs = <<>> THEN sorted ELSE SortDocs(Tail(docs), Insert(sorted, Head(docs)))

\* Recipe.getHighRatedRecipes(): find() with no filter, sorted.
GetHighRatedRecipes ==
    /\ \E order \in Orders(Len(recipes)) :
           queryOut' = [op |-> "getHighRatedRecipes", out |-> SortDocs(Scanned(order), <<>>)]
    /\ UNCHANGED <<images, recipes, createIn, createOut, viewOut, notRecipe>>

\* The rating summaries a stored recipe can have: the default of a recipe
\* never rated, or what updateRating assigned from n ratings.
StoredRatings ==
    {DefaultRating} \cup
    UNION {{AssignedRating(AggregateRating(rs, "r1")) :
               rs \in [1..n -> {[recipeId |-> "r1", rateValue |-> v] : v \in RateValues}]} :
           n \in 1..MaxTotal}

InitHighRated ==
    /\ RatingStart /\ CollectionStart /\ MemberStart
    /\ images = {}
    /\ \E n \in 0..MaxSorted : \E rs \in [1..n -> StoredRatings] :
           recipes = [i \in 1..n |-> [_id |-> i, name |-> "stew", rating |-> rs[i]]]
    /\ createIn = NoCreate
    /\ createOut = NoCreate
    /\ viewOut = NoOutput
    /\ queryOut = NoOutput

NextHighRated == GetHighRatedRecipes

SpecHighRated == InitHighRated /\ [][NextHighRated]_vars

\* x's average is at least y's, where both recipes have one.
AvgNotBelow(x, y) ==
    ("avg" \in DOMAIN x.rating /\ "avg" \in DOMAIN y.rating) =>
        x.rating.avg.num * y.rating.avg.den >= y.rating.avg.num * x.rating.avg.den

\* C8: getHighRatedRecipes returns every stored recipe once, a recipe with a
\* larger rating total before one with a smaller total whatever the averages,
\* and of two recipes with the same total the one with the higher average
\* first.
C8_SortedByTotalThenAvg ==
    queryOut.op = "getHighRatedRecipes" =>
        LET out == queryOut.out
        IN /\ Len(out) = Len(recipes)
           /\ \A i \in 1..Len(recipes) :
                  Cardinality({k \in 1..Len(out) : out[k] = recipes[i]}) = 1
           /\ \A i, j \in 1..Len(out) :
                  i < j => \/ out[i].rating.total > out[j].rating.total
                           \/ /\ out[i].rating.total = out[j].rating.total
                              /\ AvgNotBelow(out[i], out[j])

\* C8 witness: a recipe with the larger total and the lower average is listed
\* first, and two recipes with the same total follow by descending average.
C8_TotalBeatsAverageReached ==
    /\ queryOut.op = "getHighRatedRecipes"
    /\ Len(queryOut.out) = 3
    /\ queryOut.out[1].rating = [avg |-> Rat(3, 1), total |-> 2]
    /\ queryOut.out[2].rating = [avg |-> Rat(5, 1), total |-> 1]
    /\ queryOut.out[3].rating = [avg |-> Rat(3, 1), total |-> 1]

====
